---- MODULE Spec2Model ----
(***************************************************************************)
(* Model of the alternating-iter crate: the three adapters Alternating,    *)
(* AlternatingAll and AlternatingNoRemainder over two source iterators,    *)
(* and the size-hint arithmetic of utils.rs.                               *)
(*                                                                         *)
(* Option<T> is a sequence of length at most one: None is <<>> and         *)
(* Some(v) is <<v>>.  A size hint (usize, Option<usize>) is a pair         *)
(* <<lower, upper>> with upper an Option.                                  *)
(*                                                                         *)
(* The adapters never inspect an item, so the finite sources carry         *)
(* pairwise distinct items (left = 1..a, right = a+1..a+b, as in the       *)
(* crate's tests): every reordering, loss or duplication is then visible.  *)
(***************************************************************************)
EXTENDS Integers, Sequences, FiniteSets, TLC

VARIABLES left0, right0, alt, altOut, all, allOut, nr, nrOut, hRes

vars == <<left0, right0, alt, altOut, all, allOut, nr, nrOut, hRes>>

----------------------------------------------------------------------------
(* Bounds of the model *)

\* longest finite source
MaxLen == 3
\* number of next() calls made on each adapter
MaxCalls == 11
\* width of usize in the model; the arithmetic saturates / fails at 2^w - 1
UsizeBits == 3

USIZE_MAX == 2^UsizeBits - 1

----------------------------------------------------------------------------
(* Option *)

None == <<>>
Some(v) == <<v>>
IsSome(o) == o # <<>>

----------------------------------------------------------------------------
(* utils.rs *)

\* wrapping arithmetic instead of saturating arithmetic
saturating_wrap(p) == (2 * p[1] + (IF p[2] THEN 1 ELSE 0)) % (USIZE_MAX + 1)
\* wrapping arithmetic instead of checked arithmetic
checked_wrap(p) == Some((2 * p[1] + (IF p[2] THEN 1 ELSE 0)) % (USIZE_MAX + 1))
\* the bonus for the wrong side
min_and_1_swapped(i, j, last_i) ==
  IF i < j THEN <<i, ~last_i>>
  ELSE IF i = j THEN <<i, FALSE>>
  ELSE <<j, last_i>>

min_and_1(i, j, last_i) ==
  IF i < j THEN <<i, last_i>>
  ELSE IF i = j THEN <<i, FALSE>>
  ELSE <<j, ~last_i>>

saturating_mul(a, b) == IF a * b > USIZE_MAX THEN USIZE_MAX ELSE a * b
saturating_add(a, b) == IF a + b > USIZE_MAX THEN USIZE_MAX ELSE a + b
checked_mul(a, b) == IF a * b > USIZE_MAX THEN None ELSE Some(a * b)
checked_add(a, b) == IF a + b > USIZE_MAX THEN None ELSE Some(a + b)

\* p = (min, add_one)
saturating(p) == saturating_add(saturating_mul(p[1], 2), IF p[2] THEN 1 ELSE 0)

checked(p) ==
  LET m == checked_mul(p[1], 2)
  IN  IF m = None THEN None ELSE checked_add(m[1], IF p[2] THEN 1 ELSE 0)

----------------------------------------------------------------------------
(* Source iterators:                                                       *)
(*   slice       - [T; n].iter() or a range: the remaining items, fused    *)
(*   repeat      - iter::repeat(v): never ends, hint (usize::MAX, None)    *)
(*   alternating - the crate's own Alternating over two slices, used as a  *)
(*                 source: it is not fused, it can return an item after a  *)
(*                 None                                                    *)
(*   hinted      - an iterator of which only the size hint is known        *)

Slice(from, n) == [kind |-> "slice", items |-> [k \in 1..n |-> from + k - 1]]
Repeat(v) == [kind |-> "repeat", items |-> <<v>>]
Hinted(h) == [kind |-> "hinted", hint |-> h]
\* Alternating::new(i, j) over the slices i and j, given to an adapter as one
\* of its sources
AlternatingSource(i, j) == [kind |-> "alternating", i |-> i, j |-> j, i_next |-> TRUE]

\* the sources that implement FusedIterator; Alternating does not
Fused(s) == s.kind \in {"slice", "repeat"}

\* Alternating::next of a source of kind alternating: the due slice is
\* pulled and the cursor flips, whatever the slice answered
AlternatingSourceNext(s) ==
  IF s.i_next
  THEN IF s.i.items = <<>>
       THEN [it |-> [s EXCEPT !.i_next = FALSE], ret |-> None]
       ELSE [it |-> [s EXCEPT !.i_next = FALSE, !.i.items = Tail(@)],
             ret |-> Some(Head(s.i.items))]
  ELSE IF s.j.items = <<>>
       THEN [it |-> [s EXCEPT !.i_next = TRUE], ret |-> None]
       ELSE [it |-> [s EXCEPT !.i_next = TRUE, !.j.items = Tail(@)],
             ret |-> Some(Head(s.j.items))]

\* an exhausted slice yields a default item instead of None
SourceNext_default(s) ==
  CASE s.kind = "slice" ->
         IF s.items = <<>>
         THEN [it |-> s, ret |-> Some(0)]
         ELSE [it |-> [s EXCEPT !.items = Tail(@)], ret |-> Some(Head(s.items))]
    [] s.kind = "repeat" -> [it |-> s, ret |-> Some(s.items[1])]
    [] s.kind = "alternating" -> AlternatingSourceNext(s)

\* Iterator::next of a source: the source afterwards and the result
SourceNext(s) ==
  CASE s.kind = "slice" ->
         IF s.items = <<>>
         THEN [it |-> s, ret |-> None]
         ELSE [it |-> [s EXCEPT !.items = Tail(@)], ret |-> Some(Head(s.items))]
    [] s.kind = "repeat" -> [it |-> s, ret |-> Some(s.items[1])]
    [] s.kind = "alternating" -> AlternatingSourceNext(s)

\* Iterator::size_hint of a source
SourceSizeHint(s) ==
  CASE s.kind = "slice" -> <<Len(s.items), Some(Len(s.items))>>
    [] s.kind = "repeat" -> <<USIZE_MAX, None>>
    [] s.kind = "alternating" ->
         LET p == min_and_1(Len(s.i.items), Len(s.j.items), ~s.i_next)
         IN  <<saturating(p), checked(p)>>
    [] s.kind = "hinted" -> s.hint

----------------------------------------------------------------------------
(* alternating.rs *)

\* the right source is due first
Alternating_new_j_first(i, j) == [i |-> i, j |-> j, i_next |-> FALSE]

Alternating_new(i, j) == [i |-> i, j |-> j, i_next |-> TRUE]

\* the exhausted side's turn is skipped (what alternate_with's doc shows)
Alternating_next_skip(self) ==
  LET a == SourceNext(self.i)
      b == SourceNext(self.j)
  IN  IF self.i_next
      THEN IF IsSome(a.ret)
           THEN [self |-> [self EXCEPT !.i_next = FALSE, !.i = a.it],
                 ret |-> a.ret, pulled |-> <<"i">>]
           ELSE [self |-> [self EXCEPT !.i_next = TRUE, !.i = a.it, !.j = b.it],
                 ret |-> b.ret, pulled |-> <<"i", "j">>]
      ELSE IF IsSome(b.ret)
           THEN [self |-> [self EXCEPT !.i_next = TRUE, !.j = b.it],
                 ret |-> b.ret, pulled |-> <<"j">>]
           ELSE [self |-> [self EXCEPT !.i_next = FALSE, !.j = b.it, !.i = a.it],
                 ret |-> a.ret, pulled |-> <<"j", "i">>]

\* the cursor stays on a source that returned None
Alternating_next_stop(self) ==
  IF self.i_next
  THEN LET r == SourceNext(self.i)
       IN  [self |-> [self EXCEPT !.i_next = ~IsSome(r.ret), !.i = r.it],
            ret |-> r.ret, pulled |-> <<"i">>]
  ELSE LET r == SourceNext(self.j)
       IN  [self |-> [self EXCEPT !.i_next = IsSome(r.ret), !.j = r.it],
            ret |-> r.ret, pulled |-> <<"j">>]

\* next(): the adapter afterwards, the result, and the sources it pulled
Alternating_next(self) ==
  IF self.i_next
  THEN LET r == SourceNext(self.i)
       IN  [self |-> [self EXCEPT !.i_next = FALSE, !.i = r.it],
            ret |-> r.ret, pulled |-> <<"i">>]
  ELSE LET r == SourceNext(self.j)
       IN  [self |-> [self EXCEPT !.i_next = TRUE, !.j = r.it],
            ret |-> r.ret, pulled |-> <<"j">>]

\* the one-sided maximum gets its bonus when the bounded side is due
Alternating_size_hint_due_bonus(self) ==
  LET ih == SourceSizeHint(self.i)
      jh == SourceSizeHint(self.j)
      last_i == ~self.i_next
      lower == saturating(min_and_1(ih[1], jh[1], last_i))
      upper == IF IsSome(ih[2]) /\ IsSome(jh[2])
                 THEN checked(min_and_1(ih[2][1], jh[2][1], last_i))
               ELSE IF IsSome(ih[2]) THEN checked(<<ih[2][1], ~last_i>>)
               ELSE IF IsSome(jh[2]) THEN checked(<<jh[2][1], last_i>>)
               ELSE None
  IN  <<lower, upper>>

Alternating_size_hint(self) ==
  LET ih == SourceSizeHint(self.i)
      jh == SourceSizeHint(self.j)
      last_i == ~self.i_next
      lower == saturating(min_and_1(ih[1], jh[1], last_i))
      upper == IF IsSome(ih[2]) /\ IsSome(jh[2])
                 THEN checked(min_and_1(ih[2][1], jh[2][1], last_i))
               ELSE IF IsSome(ih[2]) THEN checked(<<ih[2][1], last_i>>)
               ELSE IF IsSome(jh[2]) THEN checked(<<jh[2][1], ~last_i>>)
               ELSE None
  IN  <<lower, upper>>

----------------------------------------------------------------------------
(* alternating_all.rs; the cursor enum Next is "I", "J", "IAlways",        *)
(* "JAlways"                                                               *)

AlternatingAll_new(i, j) == [i |-> i, j |-> j, next |-> "I"]

\* no drain states: the cursor keeps alternating as in Alternating
AlternatingAll_next_nodrain(self) ==
  IF self.next \in {"I", "IAlways"}
  THEN LET r == SourceNext(self.i)
       IN  [self |-> [self EXCEPT !.next = "J", !.i = r.it],
            ret |-> r.ret, pulled |-> <<"i">>]
  ELSE LET r == SourceNext(self.j)
       IN  [self |-> [self EXCEPT !.next = "I", !.j = r.it],
            ret |-> r.ret, pulled |-> <<"j">>]

\* the survivor's first item is pulled on the switch to a drain state but
\* not returned
AlternatingAll_next_discard(self) ==
  LET a == SourceNext(self.i)
      b == SourceNext(self.j)
  IN  CASE self.next = "I" ->
             IF IsSome(a.ret)
             THEN [self |-> [self EXCEPT !.next = "J", !.i = a.it],
                   ret |-> a.ret, pulled |-> <<"i">>]
             ELSE [self |-> [self EXCEPT !.next = "JAlways", !.i = a.it, !.j = b.it],
                   ret |-> None, pulled |-> <<"i", "j">>]
        [] self.next = "J" ->
             IF IsSome(b.ret)
             THEN [self |-> [self EXCEPT !.next = "I", !.j = b.it],
                   ret |-> b.ret, pulled |-> <<"j">>]
             ELSE [self |-> [self EXCEPT !.next = "IAlways", !.j = b.it, !.i = a.it],
                   ret |-> None, pulled |-> <<"j", "i">>]
        [] self.next = "IAlways" ->
             [self |-> [self EXCEPT !.i = a.it], ret |-> a.ret, pulled |-> <<"i">>]
        [] self.next = "JAlways" ->
             [self |-> [self EXCEPT !.j = b.it], ret |-> b.ret, pulled |-> <<"j">>]

AlternatingAll_next(self) ==
  LET a == SourceNext(self.i)
      b == SourceNext(self.j)
  IN  CASE self.next = "I" ->
             IF IsSome(a.ret)
             THEN [self |-> [self EXCEPT !.next = "J", !.i = a.it],
                   ret |-> a.ret, pulled |-> <<"i">>]
             ELSE [self |-> [self EXCEPT !.next = "JAlways", !.i = a.it, !.j = b.it],
                   ret |-> b.ret, pulled |-> <<"i", "j">>]
        [] self.next = "J" ->
             IF IsSome(b.ret)
             THEN [self |-> [self EXCEPT !.next = "I", !.j = b.it],
                   ret |-> b.ret, pulled |-> <<"j">>]
             ELSE [self |-> [self EXCEPT !.next = "IAlways", !.j = b.it, !.i = a.it],
                   ret |-> a.ret, pulled |-> <<"j", "i">>]
        [] self.next = "IAlways" ->
             [self |-> [self EXCEPT !.i = a.it], ret |-> a.ret, pulled |-> <<"i">>]
        [] self.next = "JAlways" ->
             [self |-> [self EXCEPT !.j = b.it], ret |-> b.ret, pulled |-> <<"j">>]

\* plain + on usize in release mode: both sums wrap around
AlternatingAll_size_hint_wrap(self) ==
  LET ih == SourceSizeHint(self.i)
      jh == SourceSizeHint(self.j)
  IN  <<(ih[1] + jh[1]) % (USIZE_MAX + 1),
        IF IsSome(ih[2]) /\ IsSome(jh[2])
        THEN Some((ih[2][1] + jh[2][1]) % (USIZE_MAX + 1)) ELSE None>>

AlternatingAll_size_hint(self) ==
  LET ih == SourceSizeHint(self.i)
      jh == SourceSizeHint(self.j)
  IN  <<saturating_add(ih[1], jh[1]),
        IF IsSome(ih[2]) /\ IsSome(jh[2]) THEN checked_add(ih[2][1], jh[2][1]) ELSE None>>

\* ExactSizeIterator::len of a source with an exact size hint
SourceLen(s) == SourceSizeHint(s)[1]

\* ExactSizeIterator::len: self.i.len() + self.j.len() with the plain + of
\* usize.  A sum above usize::MAX panics in a build with overflow checks
\* and wraps around in a build without them: the set of possible outcomes,
\* <<"ok", n>> or <<"panic", 0>>.
AlternatingAll_len(self) ==
  LET sum == SourceLen(self.i) + SourceLen(self.j)
  IN  IF sum <= USIZE_MAX
      THEN {<<"ok", sum>>}
      ELSE {<<"panic", 0>>, <<"ok", sum % (USIZE_MAX + 1)>>}

----------------------------------------------------------------------------
(* alternating_no_remainder.rs *)

AlternatingNoRemainder_new(i, j) == [i |-> i, j |-> j, last_i |-> FALSE]

\* the cursor flips on exhaustion too, as in Alternating
AlternatingNoRemainder_next_flip(self) ==
  IF self.last_i
  THEN LET r == SourceNext(self.j)
       IN  [self |-> [self EXCEPT !.last_i = FALSE, !.j = r.it],
            ret |-> r.ret, pulled |-> <<"j">>]
  ELSE LET r == SourceNext(self.i)
       IN  [self |-> [self EXCEPT !.last_i = TRUE, !.i = r.it],
            ret |-> r.ret, pulled |-> <<"i">>]

\* when the due source is exhausted the other source is pulled instead
AlternatingNoRemainder_next_drain(self) ==
  LET a == SourceNext(self.i)
      b == SourceNext(self.j)
  IN  IF self.last_i
      THEN IF IsSome(b.ret)
           THEN [self |-> [self EXCEPT !.last_i = FALSE, !.j = b.it],
                 ret |-> b.ret, pulled |-> <<"j">>]
           ELSE [self |-> [self EXCEPT !.j = b.it, !.i = a.it],
                 ret |-> a.ret, pulled |-> <<"j", "i">>]
      ELSE IF IsSome(a.ret)
           THEN [self |-> [self EXCEPT !.last_i = TRUE, !.i = a.it],
                 ret |-> a.ret, pulled |-> <<"i">>]
           ELSE [self |-> [self EXCEPT !.i = a.it, !.j = b.it],
                 ret |-> b.ret, pulled |-> <<"i", "j">>]

AlternatingNoRemainder_next(self) ==
  IF self.last_i
  THEN LET r == SourceNext(self.j)
       IN  IF IsSome(r.ret)
           THEN [self |-> [self EXCEPT !.last_i = FALSE, !.j = r.it],
                 ret |-> r.ret, pulled |-> <<"j">>]
           ELSE [self |-> [self EXCEPT !.j = r.it], ret |-> None, pulled |-> <<"j">>]
  ELSE LET r == SourceNext(self.i)
       IN  IF IsSome(r.ret)
           THEN [self |-> [self EXCEPT !.last_i = TRUE, !.i = r.it],
                 ret |-> r.ret, pulled |-> <<"i">>]
           ELSE [self |-> [self EXCEPT !.i = r.it], ret |-> None, pulled |-> <<"i">>]

AlternatingNoRemainder_size_hint(self) ==
  LET ih == SourceSizeHint(self.i)
      jh == SourceSizeHint(self.j)
      lower == saturating(min_and_1(ih[1], jh[1], self.last_i))
      upper == IF IsSome(ih[2]) /\ IsSome(jh[2])
                 THEN checked(min_and_1(ih[2][1], jh[2][1], self.last_i))
               ELSE IF IsSome(ih[2]) THEN checked(<<ih[2][1], self.last_i>>)
               ELSE IF IsSome(jh[2]) THEN checked(<<jh[2][1], ~self.last_i>>)
               ELSE None
  IN  <<lower, upper>>

----------------------------------------------------------------------------
(* Specification Spec: the three adapters are built over the same pair of  *)
(* sources (each owns its own iterators) and the caller calls next() on    *)
(* them in any order.  An entry of altOut / allOut / nrOut records one     *)
(* call: its result and the sources it pulled.                             *)

NoHint == [of |-> "none", hint |-> <<0, None>>]

\* pairs of fused sources
FusedPairs ==
  {<<Slice(1, a), Slice(a + 1, b)>> : a \in 0..MaxLen, b \in 0..MaxLen}
    \cup {<<Slice(1, a), Repeat(0)>> : a \in 0..MaxLen}
    \cup {<<Repeat(0), Slice(1, b)>> : b \in 0..MaxLen}
    \cup {<<Repeat(0), Repeat(0)>>}

\* pairs in which one source is an Alternating over a slice and an empty
\* slice: it answers item, None, item, None, ...
NonFusedPairs ==
  {<<AlternatingSource(Slice(1, a), Slice(a + 1, 0)), Slice(a + 1, b)>> :
      a \in 1..MaxLen, b \in 0..MaxLen}
    \cup {<<AlternatingSource(Slice(1, a), Slice(a + 1, 0)), Repeat(0)>> : a \in 1..MaxLen}
    \cup {<<Slice(1, a), AlternatingSource(Slice(a + 1, b), Slice(a + b + 1, 0))>> :
             a \in 0..MaxLen, b \in 1..MaxLen}

SourcePairs == FusedPairs \cup NonFusedPairs

Init ==
  /\ \E p \in SourcePairs :
       /\ left0 = p[1]
       /\ right0 = p[2]
       /\ alt = Alternating_new(p[1], p[2])
       /\ all = AlternatingAll_new(p[1], p[2])
       /\ nr = AlternatingNoRemainder_new(p[1], p[2])
  /\ altOut = <<>>
  /\ allOut = <<>>
  /\ nrOut = <<>>
  /\ hRes = NoHint

AlternatingNextCall ==
  /\ Len(altOut) < MaxCalls
  /\ LET r == Alternating_next(alt)
     IN  /\ alt' = r.self
         /\ altOut' = Append(altOut, [ret |-> r.ret, pulled |-> r.pulled])
  /\ UNCHANGED <<left0, right0, all, allOut, nr, nrOut, hRes>>

AlternatingAllNextCall ==
  /\ Len(allOut) < MaxCalls
  /\ LET r == AlternatingAll_next(all)
     IN  /\ all' = r.self
         /\ allOut' = Append(allOut, [ret |-> r.ret, pulled |-> r.pulled])
  /\ UNCHANGED <<left0, right0, alt, altOut, nr, nrOut, hRes>>

AlternatingNoRemainderNextCall ==
  /\ Len(nrOut) < MaxCalls
  /\ LET r == AlternatingNoRemainder_next(nr)
     IN  /\ nr' = r.self
         /\ nrOut' = Append(nrOut, [ret |-> r.ret, pulled |-> r.pulled])
  /\ UNCHANGED <<left0, right0, alt, altOut, all, allOut, hRes>>

Next ==
  \/ AlternatingNextCall
  \/ AlternatingAllNextCall
  \/ AlternatingNoRemainderNextCall

Spec == Init /\ [][Next]_vars

----------------------------------------------------------------------------
(* Specification SpecHint: size_hint() of the three adapters, in any       *)
(* cursor state, over sources that report any consistent size hint.        *)

Hints ==
  {<<lo, Some(up)>> : lo \in 0..USIZE_MAX, up \in 0..USIZE_MAX} \cup
  {<<lo, None>> : lo \in 0..USIZE_MAX}

ConsistentHints == {h \in Hints : IsSome(h[2]) => h[1] <= h[2][1]}

HintInit ==
  /\ \E hi \in ConsistentHints, hj \in ConsistentHints, last_i \in BOOLEAN :
       /\ left0 = Hinted(hi)
       /\ right0 = Hinted(hj)
       /\ alt = [i |-> Hinted(hi), j |-> Hinted(hj), i_next |-> ~last_i]
       /\ all = [i |-> Hinted(hi), j |-> Hinted(hj), next |-> IF last_i THEN "J" ELSE "I"]
       /\ nr = [i |-> Hinted(hi), j |-> Hinted(hj), last_i |-> last_i]
  /\ altOut = <<>>
  /\ allOut = <<>>
  /\ nrOut = <<>>
  /\ hRes = NoHint

AlternatingSizeHintCall ==
  /\ hRes' = [of |-> "Alternating", hint |-> Alternating_size_hint(alt)]
  /\ UNCHANGED <<left0, right0, alt, altOut, all, allOut, nr, nrOut>>

AlternatingAllSizeHintCall ==
  /\ hRes' = [of |-> "AlternatingAll", hint |-> AlternatingAll_size_hint(all)]
  /\ UNCHANGED <<left0, right0, alt, altOut, all, allOut, nr, nrOut>>

AlternatingNoRemainderSizeHintCall ==
  /\ hRes' = [of |-> "AlternatingNoRemainder", hint |-> AlternatingNoRemainder_size_hint(nr)]
  /\ UNCHANGED <<left0, right0, alt, altOut, all, allOut, nr, nrOut>>

\* the helper as size_hint calls it on the two lower bounds and the cursor;
\* the result is the pair (m, bonus)
MinAnd1Call ==
  /\ hRes' = [of |-> "min_and_1",
              hint |-> min_and_1(left0.hint[1], right0.hint[1], nr.last_i)]
  /\ UNCHANGED <<left0, right0, alt, altOut, all, allOut, nr, nrOut>>

\* the sources whose type implements ExactSizeIterator: slice iterators
\* and ranges do, and so does a hinted source that reports an exact hint;
\* iter::repeat does not, and neither does Alternating, whatever hint it
\* reports (its impl is commented out)
ExactSize(s) ==
  \/ s.kind = "slice"
  \/ s.kind = "hinted" /\ s.hint[2] = Some(s.hint[1])

\* both sources are ExactSizeIterator, the bound of AlternatingAll's impl
BothExactSize == ExactSize(all.i) /\ ExactSize(all.j)

\* len() of AlternatingAll, which exists when both sources are exact-size
AlternatingAllLenCall ==
  /\ BothExactSize
  /\ \E o \in AlternatingAll_len(all) :
       hRes' = [of |-> "AlternatingAll::len", hint |-> o]
  /\ UNCHANGED <<left0, right0, alt, altOut, all, allOut, nr, nrOut>>

HintNext ==
  \/ AlternatingSizeHintCall
  \/ AlternatingAllSizeHintCall
  \/ AlternatingNoRemainderSizeHintCall
  \/ MinAnd1Call
  \/ AlternatingAllLenCall

SpecHint == HintInit /\ [][HintNext]_vars

----------------------------------------------------------------------------
(* Helpers for the properties *)

Min(x, y) == IF x <= y THEN x ELSE y
Max(x, y) == IF x >= y THEN x ELSE y

Finite == left0.kind = "slice" /\ right0.kind = "slice"
\* lengths of the two sources as given to the constructors
A == Len(left0.items)
B == Len(right0.items)
\* k-th item of a finite source
L(k) == left0.items[k]
R(k) == right0.items[k]

\* the results of the calls made so far
Rets(out) == [k \in 1..Len(out) |-> out[k].ret]

\* Iterator::count on a fresh adapter: the number of items before the first
\* None, known once the history holds a None
HasNone(out) == \E k \in 1..Len(out) : out[k].ret = None
Count(out) == (CHOOSE k \in 1..Len(out) :
                 /\ out[k].ret = None
                 /\ \A m \in 1..(k - 1) : out[m].ret # None) - 1

\* both sources given to the constructors implement FusedIterator
BothFused == Fused(left0) /\ Fused(right0)

\* a source after n calls of its next()
RECURSIVE AfterPulls(_, _)
AfterPulls(src, n) == IF n = 0 THEN src ELSE AfterPulls(SourceNext(src).it, n - 1)

\* the source after n pulls: a slice has lost its first n items, a repeat
\* is as it was
Dropped(src, n) ==
  IF src.kind = "slice"
  THEN [src EXCEPT !.items = SubSeq(src.items, Min(n, Len(src.items)) + 1, Len(src.items))]
  ELSE IF src.kind = "alternating" THEN AfterPulls(src, n)
  ELSE src

\* result of the n-th pull of a source
NthPull(src, n) ==
  IF src.kind = "slice"
  THEN IF n <= Len(src.items) THEN Some(src.items[n]) ELSE None
  ELSE IF src.kind = "alternating" THEN SourceNext(AfterPulls(src, n - 1)).ret
  ELSE Some(src.items[1])

----------------------------------------------------------------------------
(* Claims *)

\* the first 2N results alternate left, right and the next one is None
EqualLengthAlternates(out) ==
  \A k \in 1..Len(out) :
    /\ k <= 2 * A =>
         out[k].ret = Some(IF k % 2 = 1 THEN L((k + 1) \div 2) ELSE R(k \div 2))
    /\ k = 2 * A + 1 => out[k].ret = None

\* C1: over two finite sources of equal length N each adapter returns
\* left[0], right[0], left[1], right[1], ... on its first 2N calls and no item
\* on call 2N+1.
C1_EqualLengths ==
  (Finite /\ A = B) =>
    /\ EqualLengthAlternates(altOut)
    /\ EqualLengthAlternates(allOut)
    /\ EqualLengthAlternates(nrOut)

C1_Witness ==
  /\ Finite /\ A = B /\ A >= 2
  /\ Len(altOut) >= 2 * A + 1
  /\ Len(allOut) >= 2 * A + 1
  /\ Len(nrOut) >= 2 * A + 1

\* number of items AlternatingNoRemainder returns over lengths a and b
NoRemainderCount == IF A <= B THEN 2 * A ELSE 2 * B + 1

\* the items of the longer source that lie beyond the alternation
Remainder ==
  IF A <= B THEN {R(k) : k \in (A + 1)..B} ELSE {L(k) : k \in (B + 2)..A}

\* C2: over finite sources of lengths a and b AlternatingNoRemainder returns
\* exactly 2a items before its first None when a <= b and exactly 2b+1 when
\* a > b, and never returns an item of the longer side's remainder.
C2_NoRemainderCount ==
  Finite =>
    \A k \in 1..Len(nrOut) :
      /\ k <= NoRemainderCount => IsSome(nrOut[k].ret)
      /\ k = NoRemainderCount + 1 => nrOut[k].ret = None
      /\ IsSome(nrOut[k].ret) => nrOut[k].ret[1] \notin Remainder

C2_Witness ==
  /\ Finite /\ A = 3 /\ B = 2
  /\ Len(nrOut) >= NoRemainderCount + 2
  /\ HasNone(nrOut) /\ Count(nrOut) = 5

\* once None, always None
Sticky(out) ==
  \A k \in 1..Len(out) : \A m \in (k + 1)..Len(out) :
    out[k].ret = None => out[m].ret = None

\* the results of the first calls are exactly rets
StartsWith(out, rets) ==
  \A k \in 1..Min(Len(out), Len(rets)) : out[k].ret = rets[k]

\* C3 as stated: in every run, once a next() call on AlternatingNoRemainder
\* has returned None, every later call returns None.
C3_NoRemainderSticky == Sticky(nrOut)

\* C3 amended: over two fused sources, once a next() call on
\* AlternatingNoRemainder has returned None every later call returns None,
\* also when the other source still holds items; over a source that is not
\* fused an item can follow a None: left = Alternating([1, 2, 3], []) and
\* right = repeat(0) give 1, 0, None, 2.
C3_NoRemainderStickyIfFused ==
  /\ BothFused => Sticky(nrOut)
  /\ (left0 = AlternatingSource(Slice(1, 3), Slice(4, 0)) /\ right0 = Repeat(0)) =>
       StartsWith(nrOut, <<Some(1), Some(0), None, Some(2)>>)

C3_Witness ==
  /\ left0 = Slice(1, 2) /\ right0 = Repeat(0)
  /\ Len(nrOut) >= 7
  /\ nrOut[4].ret = Some(0)
  /\ nrOut[5].ret = None

\* C4: over finite sources of lengths a and b the first a+b calls on
\* AlternatingAll all return items: 2*min(a,b) items alternating left, right,
\* then the rest of the longer source in order; call a+b+1 returns None.
C4_AllDrainsContiguously ==
  Finite =>
    \A k \in 1..Len(allOut) :
      /\ k <= 2 * Min(A, B) =>
           allOut[k].ret = Some(IF k % 2 = 1 THEN L((k + 1) \div 2) ELSE R(k \div 2))
      /\ (2 * Min(A, B) < k /\ k <= A + B) =>
           allOut[k].ret = Some(IF A > B THEN L(k - B) ELSE R(k - A))
      /\ k = A + B + 1 => allOut[k].ret = None

C4_Witness ==
  /\ Finite /\ A = 1 /\ B = 3
  /\ Len(allOut) >= 5
  /\ allOut[3].ret = Some(R(2))
  /\ allOut[4].ret = Some(R(3))

\* C5 as stated: in every run, once a next() call on AlternatingAll has
\* returned None, every later call returns None.
C5_AllFused == Sticky(allOut)

\* C5 amended: over two fused sources, once a next() call on AlternatingAll
\* has returned None every later call returns None; over a source that is
\* not fused an item can follow a None: left = Alternating([1, 2], []) and
\* right = [] give 1, None, 2.
C5_AllFusedIfSourcesFused ==
  /\ BothFused => Sticky(allOut)
  /\ (left0 = AlternatingSource(Slice(1, 2), Slice(3, 0)) /\ right0 = Slice(3, 0)) =>
       StartsWith(allOut, <<Some(1), None, Some(2)>>)

C5_Witness ==
  /\ Finite /\ A = 2 /\ B = 3
  /\ Len(allOut) >= 8
  /\ allOut[6].ret = None

\* C6: once one source of Alternating is exhausted while the other still has
\* items, the calls alternate between None (the exhausted side's turn) and
\* the survivor's next item (its own turn).
C6_AlternatingHalfRate ==
  (Finite /\ A # B) =>
    \A k \in (2 * Min(A, B) + 1)..Len(altOut) :
      IF A < B
      THEN IF k % 2 = 1
           THEN altOut[k].ret = None
           ELSE altOut[k].ret = (IF k \div 2 <= B THEN Some(R(k \div 2)) ELSE None)
      ELSE IF k % 2 = 0
           THEN altOut[k].ret = None
           ELSE altOut[k].ret =
                  (IF (k + 1) \div 2 <= A THEN Some(L((k + 1) \div 2)) ELSE None)

C6_Witness ==
  /\ Finite /\ A = 3 /\ B = 0
  /\ Len(altOut) >= 6
  /\ Rets(altOut)[1] = Some(1) /\ Rets(altOut)[2] = None
  /\ Rets(altOut)[3] = Some(2) /\ Rets(altOut)[4] = None
  /\ Rets(altOut)[5] = Some(3) /\ Rets(altOut)[6] = None

\* the results asserted by the doc example of alternate_with
DocExample == <<Some(1), Some(3), Some(2), Some(4), Some(5), None>>

\* C7: Alternating over left = [1, 2] and right = [3, 4, 5] returns 1, 3, 2,
\* 4, 5 and then None on six successive calls.
C7_DocExample ==
  (left0 = Slice(1, 2) /\ right0 = Slice(3, 3)) =>
    \A k \in 1..Min(6, Len(altOut)) : altOut[k].ret = DocExample[k]

AllNone(out) == \A k \in 1..Len(out) : out[k].ret = None

\* C8: over two empty sources every next() call on each adapter returns
\* None, the first one and the ten after it.
C8_BothEmpty ==
  (Finite /\ A = 0 /\ B = 0) =>
    AllNone(altOut) /\ AllNone(allOut) /\ AllNone(nrOut)

C8_Witness ==
  /\ Finite /\ A = 0 /\ B = 0
  /\ Len(altOut) >= 11 /\ Len(allOut) >= 11 /\ Len(nrOut) >= 11

\* C9: for each adapter freshly built over two finite sources the upper
\* bound of size_hint() is present and equals Iterator::count, the number of
\* items returned before the first None.
C9_UpperIsCount ==
  Finite =>
    /\ HasNone(altOut) =>
         Alternating_size_hint(Alternating_new(left0, right0))[2] = Some(Count(altOut))
    /\ HasNone(allOut) =>
         AlternatingAll_size_hint(AlternatingAll_new(left0, right0))[2]
           = Some(Count(allOut))
    /\ HasNone(nrOut) =>
         AlternatingNoRemainder_size_hint(AlternatingNoRemainder_new(left0, right0))[2]
           = Some(Count(nrOut))

C9_Witness ==
  /\ Finite /\ A = 3 /\ B = 2
  /\ HasNone(altOut) /\ Count(altOut) = 5
  /\ HasNone(allOut) /\ Count(allOut) = 5
  /\ HasNone(nrOut) /\ Count(nrOut) = 5

\* both sources report (MAX, Some(MAX))
BothMax ==
  /\ left0 = Hinted(<<USIZE_MAX, Some(USIZE_MAX)>>)
  /\ right0 = Hinted(<<USIZE_MAX, Some(USIZE_MAX)>>)

\* the smallest known upper bound of the two sources
MinUpper ==
  LET ui == left0.hint[2]
      uj == right0.hint[2]
  IN  IF IsSome(ui) /\ IsSome(uj) THEN Min(ui[1], uj[1])
      ELSE IF IsSome(ui) THEN ui[1] ELSE uj[1]

\* C10: over two sources that report (MAX, Some(MAX)), size_hint() of
\* Alternating and of AlternatingNoRemainder is (MAX, None); and 2*m + bonus
\* never wraps around: neither bound is ever smaller than the m it doubles.
C10_SaturatesAtMax ==
  hRes.of \in {"Alternating", "AlternatingNoRemainder"} =>
    /\ BothMax => hRes.hint = <<USIZE_MAX, None>>
    /\ hRes.hint[1] >= Min(left0.hint[1], right0.hint[1])
    /\ hRes.hint[1] <= USIZE_MAX
    /\ IsSome(hRes.hint[2]) =>
         (hRes.hint[2][1] >= MinUpper /\ hRes.hint[2][1] <= USIZE_MAX)

C10_Witness ==
  /\ BothMax
  /\ hRes = [of |-> "AlternatingNoRemainder", hint |-> <<USIZE_MAX, None>>]

\* the cursor of a freshly constructed adapter: left is due
FreshCursor == alt.i_next /\ ~nr.last_i

ExactHint(n) == Hinted(<<n, Some(n)>>)
HalfMax == USIZE_MAX \div 2

\* 2*m + bonus as an unbounded integer
DoublePlusBonus(p) == 2 * p[1] + (IF p[2] THEN 1 ELSE 0)

\* C11: the checked doubling reports overflow only when 2*m + bonus exceeds
\* MAX and otherwise returns exactly 2*m + bonus; for fresh Alternating and
\* AlternatingNoRemainder over exact lengths MAX/2 and MAX/2+1 size_hint() is
\* (MAX-1, Some(MAX-1)), and with the sides swapped (MAX, Some(MAX)).
C11_CheckedExact ==
  hRes.of \in {"Alternating", "AlternatingNoRemainder"} =>
    /\ (FreshCursor /\ left0 = ExactHint(HalfMax) /\ right0 = ExactHint(HalfMax + 1)) =>
         hRes.hint = <<USIZE_MAX - 1, Some(USIZE_MAX - 1)>>
    /\ (FreshCursor /\ left0 = ExactHint(HalfMax + 1) /\ right0 = ExactHint(HalfMax)) =>
         hRes.hint = <<USIZE_MAX, Some(USIZE_MAX)>>
    /\ (IsSome(left0.hint[2]) /\ IsSome(right0.hint[2])) =>
         LET v == DoublePlusBonus(min_and_1(left0.hint[2][1], right0.hint[2][1], nr.last_i))
         IN  hRes.hint[2] = (IF v > USIZE_MAX THEN None ELSE Some(v))

C11_Witness ==
  /\ FreshCursor /\ left0 = ExactHint(HalfMax + 1) /\ right0 = ExactHint(HalfMax)
  /\ hRes = [of |-> "Alternating", hint |-> <<USIZE_MAX, Some(USIZE_MAX)>>]

\* exactly one source has a known maximum
OneBounded == IsSome(left0.hint[2]) # IsSome(right0.hint[2])
\* that maximum
Bound == IF IsSome(left0.hint[2]) THEN left0.hint[2][1] ELSE right0.hint[2][1]
\* the bounded side is the side Alternating pulls next
BoundedIsDue == IF IsSome(left0.hint[2]) THEN alt.i_next ELSE ~alt.i_next

\* C12 as stated: with exactly one bounded source the maximum of
\* Alternating's size_hint(), when present, is 2*bound + 1 if the bounded side
\* is due and 2*bound if it is not.
C12_BonusWhenBoundedDue ==
  (hRes.of = "Alternating" /\ OneBounded /\ IsSome(hRes.hint[2])) =>
    hRes.hint[2][1] = 2 * Bound + (IF BoundedIsDue THEN 1 ELSE 0)

\* C12 amended: with exactly one bounded source the maximum of Alternating's
\* size_hint() is 2*bound if the bounded side is due and 2*bound + 1 if the
\* unbounded side is due, and it is absent exactly when that exceeds MAX.
C12_BonusWhenUnboundedDue ==
  (hRes.of = "Alternating" /\ OneBounded) =>
    LET v == 2 * Bound + (IF BoundedIsDue THEN 0 ELSE 1)
    IN  hRes.hint[2] = (IF v > USIZE_MAX THEN None ELSE Some(v))

C12_Witness ==
  /\ left0 = Hinted(<<USIZE_MAX, None>>) /\ right0 = ExactHint(3)
  /\ alt.i_next
  /\ hRes = [of |-> "Alternating", hint |-> <<7, Some(7)>>]

\* size_hint() of the freshly constructed adapters
FreshAlternatingHint == Alternating_size_hint(Alternating_new(left0, right0))
FreshNoRemainderHint ==
  AlternatingNoRemainder_size_hint(AlternatingNoRemainder_new(left0, right0))

\* the fresh hint is (n, Some(n)) and count() is n for both adapters
HintAndCountAre(n) ==
  /\ FreshAlternatingHint = <<n, Some(n)>>
  /\ FreshNoRemainderHint = <<n, Some(n)>>
  /\ HasNone(altOut) => Count(altOut) = n
  /\ HasNone(nrOut) => Count(nrOut) = n

\* C13: for fresh Alternating and AlternatingNoRemainder, a left source of
\* exact length k with an unbounded right gives size_hint() (2k, Some(2k))
\* and count() 2k; an unbounded left with a right of exact length k gives
\* (2k+1, Some(2k+1)) and count() 2k+1; two unbounded sources give no upper
\* bound.
C13_UnboundedSide ==
  /\ (left0.kind = "slice" /\ right0.kind = "repeat") => HintAndCountAre(2 * A)
  /\ (left0.kind = "repeat" /\ right0.kind = "slice") => HintAndCountAre(2 * B + 1)
  /\ (left0.kind = "repeat" /\ right0.kind = "repeat") =>
       /\ FreshAlternatingHint[2] = None
       /\ FreshNoRemainderHint[2] = None
       /\ ~HasNone(altOut) /\ ~HasNone(nrOut)

C13_Witness ==
  /\ left0 = Repeat(0) /\ right0 = Slice(1, 3)
  /\ HasNone(altOut) /\ Count(altOut) = 7
  /\ HasNone(nrOut) /\ Count(nrOut) = 7

\* C14: AlternatingAll's size_hint() has lower bound min(left_min +
\* right_min, MAX) and upper bound Some(left_max + right_max) exactly when
\* both maxima are known and their sum is at most MAX, and None otherwise.
C14_AllHintSums ==
  hRes.of = "AlternatingAll" =>
    LET lo == left0.hint[1] + right0.hint[1]
        ui == left0.hint[2]
        uj == right0.hint[2]
    IN  /\ hRes.hint[1] = Min(lo, USIZE_MAX)
        /\ hRes.hint[2] =
             (IF IsSome(ui) /\ IsSome(uj) /\ ui[1] + uj[1] <= USIZE_MAX
              THEN Some(ui[1] + uj[1]) ELSE None)
        /\ (left0 = ExactHint(USIZE_MAX) /\ right0 = ExactHint(3)) =>
             hRes.hint = <<USIZE_MAX, None>>
        /\ (left0 = ExactHint(USIZE_MAX) /\ right0 = ExactHint(0)) =>
             hRes.hint = <<USIZE_MAX, Some(USIZE_MAX)>>

C14_Witness ==
  /\ left0 = ExactHint(USIZE_MAX) /\ right0 = ExactHint(3)
  /\ hRes = [of |-> "AlternatingAll", hint |-> <<USIZE_MAX, None>>]

\* the source whose result a call returned: the last one it pulled
From(e) == e.pulled[Len(e.pulled)]

\* the source gives exactly n items before it first answers None: a slice
\* of n items; never an iter::repeat
Exhaustible(src, n) ==
  /\ NthPull(src, n + 1) = None
  /\ \A m \in 1..n : IsSome(NthPull(src, m))
  /\ src.kind = "slice" => Len(src.items) = n

\* number of items returned by the calls before call k
ItemsBefore(out, k) == Cardinality({m \in 1..(k - 1) : IsSome(out[m].ret)})

OneEmpty == Finite /\ ((A = 0 /\ B >= 1) \/ (B = 0 /\ A >= 1))

\* the first call returns an item and every later call returns None
OneItemThenNone(out) ==
  \A k \in 1..Len(out) : IF k = 1 THEN IsSome(out[k].ret) ELSE out[k].ret = None

\* C16 as stated: with one source empty, whichever side, and the other
\* holding k >= 1 items, AlternatingNoRemainder returns exactly 1 item and
\* None on every later call.
C16_OneItemEitherSide == OneEmpty => OneItemThenNone(nrOut)

\* C16 amended: with right empty and left holding k >= 1 items,
\* AlternatingNoRemainder returns exactly 1 item, left's first, and None on
\* every later call; with left empty and right holding k >= 1 items it
\* returns no item at all.
C16_OneItemOnlyIfLeftNonEmpty ==
  /\ (Finite /\ B = 0 /\ A >= 1) =>
       /\ OneItemThenNone(nrOut)
       /\ Len(nrOut) >= 1 => nrOut[1].ret = Some(L(1))
  /\ (Finite /\ A = 0 /\ B >= 1) => AllNone(nrOut)

C16_Witness ==
  /\ Finite /\ A = 3 /\ B = 0
  /\ Len(nrOut) >= 4
  /\ nrOut[1].ret = Some(1) /\ nrOut[2].ret = None

\* the calls among the first n that returned an item
ItemCalls(out, n) == {k \in 1..Min(n, Len(out)) : IsSome(out[k].ret)}

\* the items of a finite source
ItemsOf(src) == {src.items[k] : k \in 1..Len(src.items)}

\* C17: over finite sources of lengths a and b, a caller that keeps calling
\* next() on Alternating has received all a + b items, each once, after
\* 2*max(a,b) calls, and every call after that returns None.
C17_AlternatingReturnsAll ==
  Finite =>
    LET n == 2 * Max(A, B)
    IN  /\ Len(altOut) >= n =>
             /\ Cardinality(ItemCalls(altOut, n)) = A + B
             /\ {altOut[k].ret[1] : k \in ItemCalls(altOut, n)}
                  = ItemsOf(left0) \cup ItemsOf(right0)
        /\ \A k \in (n + 1)..Len(altOut) : altOut[k].ret = None

C17_Witness ==
  /\ Finite /\ A = 1 /\ B = 3
  /\ Len(altOut) >= 8
  /\ altOut[5].ret = None /\ altOut[6].ret = Some(R(3))

\* C18 as stated: min_and_1(min_left, min_right, last_was_left) returns the
\* smaller minimum with bonus = FALSE when the two are equal, bonus = (not
\* last_was_left) when min_left < min_right and bonus = last_was_left when
\* min_right < min_left.
C18_BonusWhenSmallerNotLast ==
  hRes.of = "min_and_1" =>
    LET i == left0.hint[1]
        j == right0.hint[1]
    IN  hRes.hint = (IF i = j THEN <<i, FALSE>>
                     ELSE IF i < j THEN <<i, ~nr.last_i>>
                     ELSE <<j, nr.last_i>>)

\* C18 amended: min_and_1 returns the smaller minimum with bonus = FALSE
\* when the two are equal, bonus = last_was_left when min_left < min_right
\* and bonus = (not last_was_left) when min_right < min_left.
C18_BonusWhenSmallerWasLast ==
  hRes.of = "min_and_1" =>
    LET i == left0.hint[1]
        j == right0.hint[1]
    IN  hRes.hint = (IF i = j THEN <<i, FALSE>>
                     ELSE IF i < j THEN <<i, nr.last_i>>
                     ELSE <<j, ~nr.last_i>>)

C18_Witness ==
  /\ left0.hint[1] = 2 /\ right0.hint[1] = 3 /\ nr.last_i
  /\ hRes = [of |-> "min_and_1", hint |-> <<2, TRUE>>]

\* calls 1..k-1 all returned an item: call k is at most the first None
NoNoneBefore(out, k) == \A m \in 1..(k - 1) : IsSome(out[m].ret)

\* C19: over the same two sources Alternating and AlternatingNoRemainder
\* return the same result on every call up to and including the one that
\* returns the first None, and before each of those calls they report the
\* same size_hint().
C19_SameUntilFirstNone ==
  /\ \A k \in 1..Min(Len(altOut), Len(nrOut)) :
       NoNoneBefore(altOut, k) => altOut[k].ret = nrOut[k].ret
  /\ (Len(altOut) = Len(nrOut) /\ NoNoneBefore(altOut, Len(altOut) + 1)) =>
       Alternating_size_hint(alt) = AlternatingNoRemainder_size_hint(nr)

C19_Witness ==
  /\ left0 = Slice(1, 2) /\ right0 = Slice(3, 3)
  /\ Len(altOut) >= 6 /\ Len(nrOut) >= 6
  /\ altOut[5].ret = None /\ nrOut[5].ret = None
  /\ altOut[6].ret = Some(5) /\ nrOut[6].ret = None

\* C20: Alternating starts with left due and flips its cursor on every
\* call: call k pulls exactly one source, left for odd k and right for even
\* k, returns that source's result as it is, None included, and leaves the
\* other source untouched.
C20_AlternatingFlipsAlways ==
  /\ alt.i_next = (Len(altOut) % 2 = 0)
  /\ alt.i = Dropped(left0, (Len(altOut) + 1) \div 2)
  /\ alt.j = Dropped(right0, Len(altOut) \div 2)
  /\ \A k \in 1..Len(altOut) :
       IF k % 2 = 1
       THEN /\ altOut[k].pulled = <<"i">>
            /\ altOut[k].ret = NthPull(left0, (k + 1) \div 2)
       ELSE /\ altOut[k].pulled = <<"j">>
            /\ altOut[k].ret = NthPull(right0, k \div 2)

C20_Witness ==
  /\ left0 = Slice(1, 1) /\ right0 = Slice(2, 3)
  /\ Len(altOut) = 5
  /\ altOut[3].ret = None /\ altOut[3].pulled = <<"i">>
  /\ altOut[4].ret = Some(3) /\ altOut[5].ret = None
  /\ alt.j = Slice(4, 1) /\ ~alt.i_next

\* one next() call on AlternatingNoRemainder, seen as a step: e is the
\* entry the call appended
NoRemainderStepFrame ==
  nrOut' # nrOut =>
    LET e == nrOut'[Len(nrOut')]
    IN  /\ e.ret = None =>
             /\ e.pulled = <<IF nr.last_i THEN "j" ELSE "i">>
             /\ nr'.last_i = nr.last_i
             /\ IF nr.last_i THEN nr'.i = nr.i ELSE nr'.j = nr.j
        /\ nr'.last_i # nr.last_i => IsSome(e.ret)

\* C21: when the due source of AlternatingNoRemainder yields no item, the
\* call returns None without pulling the other source and leaves the other
\* source and the cursor unchanged; the cursor changes only on calls that
\* return an item.
C21_NoRemainderNoneLeavesState == [][NoRemainderStepFrame]_vars

C21_Witness ==
  /\ left0 = Slice(1, 1) /\ right0 = Slice(2, 2)
  /\ Len(nrOut) = 3
  /\ nrOut[3] = [ret |-> None, pulled |-> <<"i">>]
  /\ nr.j = Slice(3, 1) /\ ~nr.last_i

\* the sources a call pulled, and those that answered None in it: every
\* pull but the last answered None, the last one did if the call returned None
PulledSet(e) == {e.pulled[k] : k \in 1..Len(e.pulled)}
ExhaustedIn(e) ==
  {e.pulled[k] : k \in 1..(Len(e.pulled) - 1)}
    \cup (IF e.ret = None THEN {From(e)} ELSE {})

\* no call pulls a source that answered None in an earlier call
NeverRepolls(out) ==
  \A k \in 1..Len(out) : \A m \in (k + 1)..Len(out) :
    ExhaustedIn(out[k]) \cap PulledSet(out[m]) = {}

\* C22 as stated: AlternatingAll and AlternatingNoRemainder never call
\* next() again on a source that has reported exhaustion to them.
C22_NeverRepollsExhausted == NeverRepolls(allOut) /\ NeverRepolls(nrOut)

\* C22 amended: AlternatingAll never calls next() again on the source whose
\* exhaustion it observed first, and from then on pulls only the other
\* side, which it keeps polling after that side has reported exhaustion
\* too.  AlternatingNoRemainder polls the source that reported exhaustion
\* again on the next call, and pulls the other source later only after the
\* exhausted source has answered a poll with an item; a fused source never
\* does, so over two fused sources every later call polls that same source
\* and returns None.
C22_RepollsOnlyDueSource ==
  /\ \A k \in 1..Len(allOut) : \A m \in (k + 1)..Len(allOut) :
       Len(allOut[k].pulled) = 2 => allOut[m].pulled = <<allOut[k].pulled[2]>>
  /\ \A k \in 1..Len(nrOut) : \A m \in (k + 1)..Len(nrOut) :
       nrOut[k].ret = None =>
         /\ m = k + 1 => nrOut[m].pulled = nrOut[k].pulled
         /\ nrOut[m].pulled # nrOut[k].pulled =>
              \E n \in (k + 1)..(m - 1) :
                nrOut[n].pulled = nrOut[k].pulled /\ IsSome(nrOut[n].ret)
         /\ BothFused => (nrOut[m].pulled = nrOut[k].pulled /\ nrOut[m].ret = None)

C22_Witness ==
  /\ left0 = Slice(1, 1) /\ right0 = Slice(2, 2)
  /\ Len(allOut) >= 5
  /\ allOut[3] = [ret |-> Some(3), pulled |-> <<"i", "j">>]
  /\ allOut[4] = [ret |-> None, pulled |-> <<"j">>]
  /\ allOut[5] = [ret |-> None, pulled |-> <<"j">>]
  /\ Len(nrOut) >= 4
  /\ nrOut[3] = [ret |-> None, pulled |-> <<"i">>]
  /\ nrOut[4] = [ret |-> None, pulled |-> <<"i">>]

\* one next() call on AlternatingAll, seen as a step of its cursor: e is the
\* entry the call appended, a and b what left and right would answer
AllCursorStep ==
  allOut' # allOut =>
    LET e == allOut'[Len(allOut')]
        a == SourceNext(all.i).ret
        b == SourceNext(all.j).ret
    IN  CASE all.next = "I" ->
               IF IsSome(a)
               THEN all'.next = "J" /\ e = [ret |-> a, pulled |-> <<"i">>]
               ELSE all'.next = "JAlways" /\ e = [ret |-> b, pulled |-> <<"i", "j">>]
          [] all.next = "J" ->
               IF IsSome(b)
               THEN all'.next = "I" /\ e = [ret |-> b, pulled |-> <<"j">>]
               ELSE all'.next = "IAlways" /\ e = [ret |-> a, pulled |-> <<"j", "i">>]
          [] all.next = "IAlways" ->
               all'.next = "IAlways" /\ e = [ret |-> a, pulled |-> <<"i">>]
          [] all.next = "JAlways" ->
               all'.next = "JAlways" /\ e = [ret |-> b, pulled |-> <<"j">>]

\* C23: AlternatingAll's cursor starts at I (left due); I goes to J on an
\* item of left and to JAlways when left is exhausted, the same call then
\* returning right's next result; J goes to I on an item of right and to
\* IAlways when right is exhausted, the same call then returning left's next
\* result; IAlways and JAlways are never left and pull only the survivor.
C23_AllCursorTransitions == (all.next = "I") /\ [][AllCursorStep]_vars

C23_Witness ==
  /\ left0 = Slice(1, 3) /\ right0 = Slice(4, 1)
  /\ Len(allOut) = 5
  /\ allOut[4] = [ret |-> Some(3), pulled |-> <<"j", "i">>]
  /\ allOut[5] = [ret |-> None, pulled |-> <<"i">>]
  /\ all.next = "IAlways"

\* Iterator::count from a given adapter state: next() is called until it
\* returns None, and the items are counted (finite sources only)
RECURSIVE AlternatingCount(_)
AlternatingCount(self) ==
  LET r == Alternating_next(self)
  IN  IF r.ret = None THEN 0 ELSE 1 + AlternatingCount(r.self)

RECURSIVE AlternatingAllCount(_)
AlternatingAllCount(self) ==
  LET r == AlternatingAll_next(self)
  IN  IF r.ret = None THEN 0 ELSE 1 + AlternatingAllCount(r.self)

RECURSIVE AlternatingNoRemainderCount(_)
AlternatingNoRemainderCount(self) ==
  LET r == AlternatingNoRemainder_next(self)
  IN  IF r.ret = None THEN 0 ELSE 1 + AlternatingNoRemainderCount(r.self)

ExactlyN(hint, n) == hint = <<n, Some(n)>>

\* C24: in every state reached by any number of next() calls over finite
\* sources, also after a None, size_hint() of each adapter is (n, Some(n))
\* with n the number of items the adapter returns from that state before its
\* next None.
C24_HintExactEverywhere ==
  Finite =>
    /\ ExactlyN(Alternating_size_hint(alt), AlternatingCount(alt))
    /\ ExactlyN(AlternatingNoRemainder_size_hint(nr), AlternatingNoRemainderCount(nr))
    /\ ExactlyN(AlternatingAll_size_hint(all), AlternatingAllCount(all))

C24_Witness ==
  /\ left0 = Slice(1, 1) /\ right0 = Slice(2, 3)
  /\ Len(altOut) = 3 /\ altOut[3].ret = None
  /\ Alternating_size_hint(alt) = <<1, Some(1)>>
  /\ Len(nrOut) = 3 /\ nrOut[3].ret = None
  /\ AlternatingNoRemainder_size_hint(nr) = <<0, Some(0)>>
  /\ Len(allOut) = 2
  /\ AlternatingAll_size_hint(all) = <<2, Some(2)>>

Adapters == {"Alternating", "AlternatingAll", "AlternatingNoRemainder"}

\* C25: for every cursor state and every pair of consistent source hints
\* the hint returned by size_hint() of each adapter is consistent: whenever
\* its upper bound is present, lower bound <= upper bound.
C25_HintConsistent ==
  (hRes.of \in Adapters /\ IsSome(hRes.hint[2])) => hRes.hint[1] <= hRes.hint[2][1]

C25_Witness ==
  /\ left0 = Hinted(<<USIZE_MAX, None>>) /\ right0 = Hinted(<<2, Some(3)>>)
  /\ alt.i_next
  /\ hRes = [of |-> "Alternating", hint |-> <<5, Some(7)>>]

\* the calls that returned an item of left, of right
ReturnedFromI(e) == IsSome(e.ret) /\ From(e) = "i"
ReturnedFromJ(e) == IsSome(e.ret) /\ From(e) = "j"

\* the items a history returned
ItemsReturned(calls) == [k \in 1..Len(calls) |-> calls[k].ret[1]]

\* the items returned from a finite source are its first n items, in order,
\* and the adapter's iterator has consumed exactly those n
ExactlyConsumed(src0, src, returned) ==
  src0.kind = "slice" =>
    /\ Len(returned) <= Len(src0.items)
    /\ returned = SubSeq(src0.items, 1, Len(returned))
    /\ src = Dropped(src0, Len(returned))

NothingLost(self, out) ==
  /\ ExactlyConsumed(left0, self.i, ItemsReturned(SelectSeq(out, ReturnedFromI)))
  /\ ExactlyConsumed(right0, self.j, ItemsReturned(SelectSeq(out, ReturnedFromJ)))

\* C26: no adapter buffers, drops or duplicates items: after any calls,
\* the items returned from left (from right) are a prefix of left (of right)
\* in order, and each source has had exactly those items consumed; the
\* remainder AlternatingNoRemainder discards is never taken from its source.
C26_NothingLost ==
  /\ NothingLost(alt, altOut)
  /\ NothingLost(all, allOut)
  /\ NothingLost(nr, nrOut)

C26_Witness ==
  /\ left0 = Slice(1, 2) /\ right0 = Slice(3, 3)
  /\ Len(altOut) >= 6 /\ Len(allOut) >= 6 /\ Len(nrOut) >= 6
  /\ alt.j = Slice(6, 0) /\ all.j = Slice(6, 0)
  /\ nr.j = Slice(5, 1)

\* the items a history returned, with every None removed
ReturnedItem(e) == IsSome(e.ret)
WithoutNone(out) == ItemsReturned(SelectSeq(out, ReturnedItem))

IsPrefix(s, t) == Len(s) <= Len(t) /\ s = SubSeq(t, 1, Len(s))

\* C27: over finite sources, the items Alternating returns until both
\* sources are empty, with every None removed, are the items AlternatingAll
\* returns, in the same order, and the items AlternatingNoRemainder returns
\* are a prefix of them.
C27_SameItemsAsAll ==
  Finite =>
    LET x == WithoutNone(altOut)
        y == WithoutNone(allOut)
        z == WithoutNone(nrOut)
    IN  /\ IsPrefix(x, y) \/ IsPrefix(y, x)
        /\ (Len(altOut) >= 2 * Max(A, B) /\ Len(allOut) >= A + B) => x = y
        /\ IsPrefix(z, y) \/ IsPrefix(y, z)
        /\ Len(allOut) >= A + B => IsPrefix(z, y)

C27_Witness ==
  /\ left0 = Slice(1, 1) /\ right0 = Slice(2, 3)
  /\ Len(altOut) >= 6 /\ Len(allOut) >= 4 /\ Len(nrOut) >= 3
  /\ WithoutNone(altOut) = <<1, 2, 3, 4>>
  /\ WithoutNone(allOut) = <<1, 2, 3, 4>>
  /\ WithoutNone(nrOut) = <<1, 2>>

\* C28: for all pairs of exact-size sources with lengths in 0..MAX,
\* AlternatingAll::len() does not overflow and size_hint() returns
\* (len(), Some(len())).
C28_LenAgreesWithHint ==
  hRes.of = "AlternatingAll::len" =>
    /\ hRes.hint[1] = "ok"
    /\ AlternatingAll_size_hint(all) = <<hRes.hint[2], Some(hRes.hint[2])>>

====
